---- MODULE Spec2Model ----
(***************************************************************************)
(* Model of the scripted chat widget of the portfolio site                 *)
(* (class PortfolioChatbot, src/script.js 879-1239) and of the page around *)
(* it: theme toggle, contact form, mobile menu, throttled header effect    *)
(* and typed effect (class PortfolioApp), image lightbox, and the typed    *)
(* effect of src/unnamed/part_002.                                         *)
(*                                                                         *)
(* Strings the code inspects character by character (the typed input, the  *)
(* canned phrases, the keywords) are sequences of one-character strings.   *)
(* Time is counted in ticks of 100 ms, the greatest common divisor of the  *)
(* four setTimeout delays of the class (1000, 300, 800 and 3000 ms).       *)
(* The throttle window of the header is counted in steps of 1 ms.          *)
(***************************************************************************)
EXTENDS Integers, Sequences, FiniteSets, TLC

VARIABLES
    isOpen,           \* this.isOpen
    hasInteracted,    \* this.hasInteracted
    windowActive,     \* chatbotWindow.classList contains 'active'
    badgeDisplay,     \* chatbotBadge.style.display
    knowledgeBase,    \* this.knowledgeBase
    inputValue,       \* chatbotInput.value
    chatbotMessages,  \* children of the #chatbot-messages container, in order
    timers,           \* pending setTimeout callbacks, in registration order
    calls,            \* history: one entry per processMessage call of a timer
    pmMessage,        \* argument of a direct processMessage call
    pmResponse,       \* what that call returned
    everOpen,         \* history: the widget has been open at least once
    darkTheme,        \* documentElement.classList contains 'dark-theme'
    savedTheme,       \* localStorage item 'portfolio-theme'
    prefersDark,      \* matchMedia('(prefers-color-scheme: dark)').matches
    loadedTheme,      \* history: what initializeTheme read at this page load
    toggleTrail,      \* history: theme and item before each of the last toggles
    formFilled,       \* the contact form's fields hold what the visitor typed
    submitButton,     \* the form's .submit-button: innerHTML and disabled
    status,           \* className of the #form-status element
    pending,          \* submit handlers suspended at their await fetch(...)
    lastToast,        \* type and text of the toast showToast appended last
    lightboxActive,   \* #lightbox-modal classList contains 'active'
    bodyOverflow,     \* document.body.style.overflow
    lastKeydown,      \* history: the last keydown event and isOpen at that time
    navMobileOpen,    \* .nav-links classList contains 'mobile-open'
    mobileToggleActive, \* #mobileMenuToggle classList contains 'active'
    backdropActive,   \* #mobileMenuBackdrop classList contains 'active'
    bodyMenuOpen,     \* body classList contains 'menu-open'
    bodyStyle,        \* body.style: position, top, width
    scrollY,          \* window.scrollY, in half pixels
    innerWidth,       \* window.innerWidth
    resizeTimeout,    \* the debounced resize listener has a timeout pending
    scrollAtOpen,     \* history: window.scrollY when the menu was opened last
    inThrottle,       \* inThrottle of the throttled handleScroll
    throttleTimer,    \* its pending setTimeout: <<>> or <<ms left>>
    headerScrolled,   \* .header classList contains 'scrolled'
    ranFlag,          \* history: flips each time the wrapped function runs
    sinceRun,         \* history: ms since it ran last, counted up to the limit
    lastCall,         \* history: what the last call of handleScroll did
    phraseIndex,      \* phraseIndex of setupTypedEffect
    charIndex,        \* charIndex
    isDeleting,       \* isDeleting
    isPaused,         \* isPaused
    typedText,        \* textContent of the #typed element
    typeDelay,        \* delay of the pending setTimeout(type, ...), in ms
    shown,            \* history: indices of the phrases shown in full so far
    pIndex,           \* pIndex of typedEffect (src/unnamed/part_002)
    pCharIndex,       \* its charIndex
    deleting,         \* its deleting
    elText,           \* the textContent it wrote last
    tickDelay         \* delay of its pending setTimeout(tick, ...), in ms

vars == <<isOpen, hasInteracted, windowActive, badgeDisplay, knowledgeBase,
          inputValue, chatbotMessages, timers, calls, pmMessage, pmResponse,
          everOpen, darkTheme, savedTheme, prefersDark, loadedTheme, toggleTrail,
          formFilled, submitButton, status, pending, lastToast,
          lightboxActive, bodyOverflow, lastKeydown,
          navMobileOpen, mobileToggleActive, backdropActive, bodyMenuOpen,
          bodyStyle, scrollY, innerWidth, resizeTimeout, scrollAtOpen,
          inThrottle, throttleTimer, headerScrolled, ranFlag, sinceRun, lastCall,
          phraseIndex, charIndex, isDeleting, isPaused, typedText, typeDelay,
          shown, pIndex, pCharIndex, deleting, elText, tickDelay>>

widgetVars == <<isOpen, hasInteracted, windowActive, badgeDisplay, everOpen>>
pmVars == <<pmMessage, pmResponse>>
themeVars == <<darkTheme, savedTheme, prefersDark, loadedTheme, toggleTrail>>
formVars == <<formFilled, submitButton, status, pending>>
lightboxVars == <<lightboxActive, bodyOverflow>>
menuVars == <<navMobileOpen, mobileToggleActive, backdropActive, bodyMenuOpen,
              bodyStyle, scrollY, scrollAtOpen>>
resizeVars == <<innerWidth, resizeTimeout>>
headerVars == <<inThrottle, throttleTimer, headerScrolled, ranFlag, sinceRun,
                lastCall>>
typedVars == <<phraseIndex, charIndex, isDeleting, isPaused, typedText, typeDelay,
               shown>>
tickVars == <<pIndex, pCharIndex, deleting, elText, tickDelay>>
restVars == <<menuVars, resizeVars, headerVars, typedVars, tickVars>>
appVars == <<themeVars, formVars, lastToast, lightboxVars, lastKeydown, restVars>>
chatVars == <<widgetVars, knowledgeBase, inputValue, chatbotMessages, timers,
              calls, pmVars>>

----------------------------------------------------------------------------
(* Bounds *)

\* user messages (typed or quick reply) appended in one page view
MaxUserMsgs == 2
\* chunks of Vocabulary concatenated into one processMessage argument
MaxChunks == 2

----------------------------------------------------------------------------
(* Delays of the setTimeout calls, in ticks of 100 ms *)

SendDelay == 10
QuickShowDelay == 3
QuickReplyDelay == 8
WelcomeDelay == 30

----------------------------------------------------------------------------
(* String primitives *)

Lower == <<"a","b","c","d","e","f","g","h","i","j","k","l","m",
           "n","o","p","q","r","s","t","u","v","w","x","y","z">>
Upper == <<"A","B","C","D","E","F","G","H","I","J","K","L","M",
           "N","O","P","Q","R","S","T","U","V","W","X","Y","Z">>

WhiteSpace == {" ", "\t", "\n"}

\* String.prototype.toLowerCase, one character
toLowerCaseChar(c) ==
    IF \E i \in DOMAIN Upper : Upper[i] = c
    THEN Lower[CHOOSE i \in DOMAIN Upper : Upper[i] = c]
    ELSE c

\* String.prototype.toLowerCase
toLowerCase(s) == [i \in DOMAIN s |-> toLowerCaseChar(s[i])]

\* String.prototype.includes
includes(s, kw) ==
    \E i \in 0..(Len(s) - Len(kw)) : SubSeq(s, i + 1, i + Len(kw)) = kw

RECURSIVE trimStart(_)
trimStart(s) ==
    IF s = <<>> THEN s
    ELSE IF Head(s) \in WhiteSpace THEN trimStart(Tail(s)) ELSE s

RECURSIVE trimEnd(_)
trimEnd(s) ==
    IF s = <<>> THEN s
    ELSE IF s[Len(s)] \in WhiteSpace THEN trimEnd(SubSeq(s, 1, Len(s) - 1)) ELSE s

\* String.prototype.trim
trim(s) == trimEnd(trimStart(s))

\* Array.prototype.join on items that are themselves sequences of text parts
RECURSIVE join(_, _)
join(items, sep) ==
    IF items = <<>> THEN <<>>
    ELSE IF Len(items) = 1 THEN items[1]
    ELSE items[1] \o <<sep>> \o join(Tail(items), sep)

----------------------------------------------------------------------------
(* The knowledge base built by the constructor *)

KnowledgeBaseInit ==
    [ contact |->
        [ email    |-> "sibabalod@gmail.com",
          phone    |-> "0799199415",
          location |-> "Cape Town, South Africa",
          linkedin |-> "https://www.linkedin.com/in/sibabalwe-dyantyi-258b41125",
          github   |-> "https://github.com/siba2623" ],
      skills |->
        << "Full-Stack Development",
           "AI & Machine Learning",
           "Prompt Engineering",
           "Data Analytics",
           "Frontend: HTML, CSS, JavaScript, React",
           "Backend: Node.js, Python",
           "Cybersecurity",
           "Data Visualization" >>,
      projects |->
        << [ name |-> "AI Chatbot Platform",
             description |-> "Intelligent chatbot with NLP capabilities",
             link |-> "https://app--synapse-ai-03ae5851.base44.app/Chat" ],
           [ name |-> "GetItDone NGO Website",
             description |-> "Community development and social impact website",
             link |-> "https://a1getitdone.netlify.app" ],
           [ name |-> "Data Visualization Dashboard",
             description |-> "Interactive Tableau dashboard for business insights",
             link |-> "https://public.tableau.com/app/profile/sibabalwe.dyantyi/viz/Groceriesdata/Dashboard13" ],
           [ name |-> "Soil Analyzer Dashboard",
             description |-> "Sustainable agriculture tool",
             link |-> "https://www.figma.com/proto/HIhUfBOLKg3N81VxhaVmqC/Soil-Analyzer" ] >>,
      experience |-> "3+ years in full-stack development with focus on AI and data analytics",
      education |-> "PPE at University of Cape Town, IT Support, Data Analytics, and Cybersecurity training",
      certifications |->
        << "Google Cybersecurity Certificate",
           "IBM Data Analytics Certificate",
           "IBM Data Science Professional Certificate",
           "IT Specialist Certificate",
           "SANCS 2025 Participation Certificate" >> ]

----------------------------------------------------------------------------
(* processMessage: the keyword chain.  A response text is the sequence of  *)
(* the parts of its template literal: the literal stretches (line breaks   *)
(* and pictographs of the source left out) and the interpolated values.    *)

\* what a JavaScript function yields when it falls off its end
Undefined == [undefined |-> TRUE]

\* pmResponse before processMessage has been called
NoCall == [called |-> FALSE]

reply(text, action) == [text |-> text, action |-> action]

skillsList ==
    join([i \in DOMAIN knowledgeBase.skills |-> <<"* ", knowledgeBase.skills[i]>>], "<br>")

projectsList ==
    join([i \in DOMAIN knowledgeBase.projects |->
            <<"<strong>", knowledgeBase.projects[i].name, "</strong>: ",
              knowledgeBase.projects[i].description>>], "<br><br>")

certsList ==
    join([i \in DOMAIN knowledgeBase.certifications |->
            <<"* ", knowledgeBase.certifications[i]>>], "<br>")

contactResponse ==
    [ text |-> << "You can reach Sibabalwe at:<br><br>Email: <strong>",
                  knowledgeBase.contact.email,
                  "</strong><br>Phone: <strong>",
                  knowledgeBase.contact.phone,
                  "</strong><br>Location: ",
                  knowledgeBase.contact.location,
                  "<br><br>Feel free to use the contact form on this page or reach out directly!" >>,
      quickReplies |-> << reply("View Projects", "projects"), reply("Skills", "skills") >> ]

phoneResponse ==
    [ text |-> << "You can call Sibabalwe at: <strong>",
                  knowledgeBase.contact.phone,
                  "</strong><br><br>Or email at: ",
                  knowledgeBase.contact.email >>,
      quickReplies |-> << reply("View Projects", "projects"), reply("More Info", "about") >> ]

skillsResponse ==
    [ text |-> << "Sibabalwe's key skills include:<br><br>" >> \o skillsList
               \o << "<br><br>With ", knowledgeBase.experience, "." >>,
      quickReplies |-> << reply("View Projects", "projects"), reply("Contact Info", "contact") >> ]

projectsResponse ==
    [ text |-> << "Here are some featured projects:<br><br>" >> \o projectsList
               \o << "<br><br>Scroll down to the Projects section to see more details and live demos!" >>,
      quickReplies |-> << reply("Contact Info", "contact"), reply("Skills", "skills") >> ]

certificationsResponse ==
    [ text |-> << "Sibabalwe holds the following professional certifications:<br><br>" >>
               \o certsList
               \o << "<br><br>Scroll down to the Certifications section to view and download certificates!" >>,
      quickReplies |-> << reply("View Projects", "projects"), reply("Contact Info", "contact") >> ]

experienceResponse ==
    [ text |-> << "Sibabalwe is a passionate full-stack developer with ",
                  knowledgeBase.experience,
                  ".<br><br><strong>Education:</strong> ",
                  knowledgeBase.education,
                  "<br><br>He specializes in creating innovative solutions that bridge complex technology with user needs." >>,
      quickReplies |-> << reply("View Projects", "projects"),
                          reply("Certifications", "certifications"),
                          reply("Contact Info", "contact") >> ]

hireResponse ==
    [ text |-> << "Sibabalwe is open to new opportunities!<br><br>For project inquiries or collaboration:<br>",
                  knowledgeBase.contact.email,
                  "<br>",
                  knowledgeBase.contact.phone,
                  "<br><br>You can also fill out the contact form on this page." >>,
      quickReplies |-> << reply("View Projects", "projects"), reply("Skills", "skills") >> ]

greetingResponse ==
    [ text |-> << "Hello! I'm here to help you learn more about Sibabalwe's work and experience. What would you like to know?" >>,
      quickReplies |-> << reply("Contact Info", "contact"),
                          reply("Skills", "skills"),
                          reply("Projects", "projects") >> ]

\* the final return statement left out
\* the fallback menu offering a button whose tag the switch does not know
defaultResponse_HelpButton ==
    [ text |-> << "I can help you with information about:<br><br>* Contact details (email, phone)<br>* Skills and experience<br>* Professional certifications<br>* Projects and portfolio<br>* Availability for hire<br><br>What would you like to know?" >>,
      quickReplies |-> << reply("Contact Info", "contact"),
                          reply("Certifications", "certifications"),
                          reply("More", "more") >> ]

defaultResponse_Missing == Undefined

defaultResponse ==
    [ text |-> << "I can help you with information about:<br><br>* Contact details (email, phone)<br>* Skills and experience<br>* Professional certifications<br>* Projects and portfolio<br>* Availability for hire<br><br>What would you like to know?" >>,
      quickReplies |-> << reply("Contact Info", "contact"),
                          reply("Certifications", "certifications"),
                          reply("Projects", "projects") >> ]

\* the if chain of processMessage, on the lower-cased message
matchRules(lowerMessage) ==
    IF \/ includes(lowerMessage, <<"e","m","a","i","l">>)
       \/ includes(lowerMessage, <<"c","o","n","t","a","c","t">>)
       \/ includes(lowerMessage, <<"r","e","a","c","h">>)
    THEN contactResponse
    ELSE IF \/ includes(lowerMessage, <<"p","h","o","n","e">>)
            \/ includes(lowerMessage, <<"c","a","l","l">>)
            \/ includes(lowerMessage, <<"n","u","m","b","e","r">>)
    THEN phoneResponse
    ELSE IF \/ includes(lowerMessage, <<"s","k","i","l","l">>)
            \/ includes(lowerMessage, <<"t","e","c","h","n","o","l","o","g","y">>)
            \/ includes(lowerMessage, <<"t","e","c","h"," ","s","t","a","c","k">>)
    THEN skillsResponse
    ELSE IF \/ includes(lowerMessage, <<"p","r","o","j","e","c","t">>)
            \/ includes(lowerMessage, <<"w","o","r","k">>)
            \/ includes(lowerMessage, <<"p","o","r","t","f","o","l","i","o">>)
    THEN projectsResponse
    ELSE IF \/ includes(lowerMessage, <<"c","e","r","t","i","f","i","c","a","t","e">>)
            \/ includes(lowerMessage, <<"c","e","r","t","i","f","i","c","a","t","i","o","n">>)
            \/ includes(lowerMessage, <<"c","r","e","d","e","n","t","i","a","l">>)
    THEN certificationsResponse
    ELSE IF \/ includes(lowerMessage, <<"e","x","p","e","r","i","e","n","c","e">>)
            \/ includes(lowerMessage, <<"b","a","c","k","g","r","o","u","n","d">>)
            \/ includes(lowerMessage, <<"a","b","o","u","t">>)
    THEN experienceResponse
    ELSE IF \/ includes(lowerMessage, <<"h","i","r","e">>)
            \/ includes(lowerMessage, <<"a","v","a","i","l","a","b","l","e">>)
            \/ includes(lowerMessage, <<"f","r","e","e","l","a","n","c","e">>)
    THEN hireResponse
    ELSE IF \/ includes(lowerMessage, <<"h","e","l","l","o">>)
            \/ includes(lowerMessage, <<"h","i">>)
            \/ includes(lowerMessage, <<"h","e","y">>)
    THEN greetingResponse
    ELSE defaultResponse

\* the projects branch moved to the head of the chain
processMessage_ProjectsFirst(message) ==
    LET lowerMessage == toLowerCase(message) IN
    IF \/ includes(lowerMessage, <<"p","r","o","j","e","c","t">>)
       \/ includes(lowerMessage, <<"w","o","r","k">>)
       \/ includes(lowerMessage, <<"p","o","r","t","f","o","l","i","o">>)
    THEN projectsResponse
    ELSE matchRules(lowerMessage)

\* the message matched as typed, not lower-cased
processMessage_CaseSensitive(message) == matchRules(message)

\* the greeting replaced by the menu once the visitor has opened the widget
processMessage_Stateful(message) ==
    LET response == matchRules(toLowerCase(message)) IN
    IF hasInteracted /\ response = greetingResponse THEN defaultResponse ELSE response

processMessage(message) ==
    LET lowerMessage == toLowerCase(message) IN
    matchRules(lowerMessage)

----------------------------------------------------------------------------
(* The message container *)

\* addMessage: one chatbot-message element appended at the end.  A user
\* message is added with quickReplies = null, which renders no button, as
\* the empty sequence does here.
addMessage(container, text, sender, quickReplies) ==
    Append(container,
           [className |-> sender, text |-> text, quickReplies |-> quickReplies])

\* showTypingIndicator: one typing-indicator-message element appended
showTypingIndicator(container) ==
    Append(container,
           [className |-> "typing-indicator", text |-> <<>>, quickReplies |-> <<>>])

IsTyping(el) == el.className = "typing-indicator"

\* querySelector('.typing-indicator-message'): first match in document order
firstTypingIndicator(container) ==
    IF \E i \in DOMAIN container : IsTyping(container[i])
    THEN CHOOSE i \in DOMAIN container :
            /\ IsTyping(container[i])
            /\ \A j \in 1..(i - 1) : ~IsTyping(container[j])
    ELSE 0

\* hideTypingIndicator: the first indicator, if there is one, is removed
\* the container emptied (innerHTML = '') instead of one element removed
hideTypingIndicator_Clear(container) == <<>>

\* the indicator left in the container when the reply arrives
hideTypingIndicator_Keep(container) == container

hideTypingIndicator(container) ==
    LET i == firstTypingIndicator(container) IN
    IF i = 0 THEN container
    ELSE SubSeq(container, 1, i - 1) \o SubSeq(container, i + 1, Len(container))

UserMessages == SelectSeq(chatbotMessages, LAMBDA el : el.className = "user")
BotMessages == SelectSeq(chatbotMessages, LAMBDA el : el.className = "bot")
TypingIndicators == SelectSeq(chatbotMessages, IsTyping)

----------------------------------------------------------------------------
(* Timers.  A timer is due when remaining = 0; time does not pass while a  *)
(* timer is due.  A timer carries what its closure captured (message) and  *)
(* three history fields: id, the ordinal of the user message it belongs    *)
(* to; input, the text field value or data-action that caused it; since,   *)
(* the ticks passed from the append of that user message.                  *)

timer(kind, message, delay, id, input, since) ==
    [kind |-> kind, message |-> message, remaining |-> delay,
     id |-> id, input |-> input, since |-> since]

\* Timer i may run: its delay is over, and no timer of the same kind set
\* before it is still waiting (timers of equal delay run in the order in
\* which they were set; timers ends with the one set last).
due(i) ==
    /\ timers[i].remaining = 0
    /\ \A j \in 1..(i - 1) :
           ~(timers[j].kind = timers[i].kind /\ timers[j].remaining = 0)

removeTimer(i) == SubSeq(timers, 1, i - 1) \o SubSeq(timers, i + 1, Len(timers))

ReplyTimers == SelectSeq(timers, LAMBDA t : t.kind \in {"sendReply", "quickShow", "quickReply"})

----------------------------------------------------------------------------
(* Inputs *)

\* values of the text field when Send is clicked or Enter is pressed
RawInputs ==
    { <<>>,
      <<" "," "," ">>,
      <<" ","H","i"," ">>,
      <<"s","k","i","l","l","s"," ","a","n","d"," ","e","x","p","e","r","i","e","n","c","e">> }

\* data-action values of a clicked quick-reply button; "more" stands for
\* any value outside the five cases of the switch
QuickActions == {"contact", "skills", "projects", "certifications", "about", "more"}

\* the buttons clicked in the runs that interleave every handler
ClickedActions == {"skills", "more"}

----------------------------------------------------------------------------
(* The page around the widget (class PortfolioApp and initLightbox)        *)

\* localStorage.getItem('portfolio-theme') of a visitor who never toggled
Null == "null"

\* the submit button's markup in the page, and the spinner of the handler
OriginalText == "Send Message"
SendingText == "Sending..."

\* limit of the throttled handleScroll of setupHeaderEffects, in ms
HeaderLimit == 10

\* delay of the first setTimeout(type, ...) of setupTypedEffect, in ms
StartDelay == 1000

\* typeSpeed of typedEffect (src/unnamed/part_002), in ms
tickSpeed == 60

\* no toast has been shown yet
NoToast == [type |-> "", message |-> ""]

\* no key has been pressed yet
NoKey == [key |-> "", isOpen |-> FALSE]

\* initializeTheme: whether the dark-theme class is added to the fresh page
initializeTheme(saved, dark) == (saved = "dark") \/ (saved = Null /\ dark)

\* The page after PortfolioApp is constructed, on a first visit: the initial
\* call of handleScroll has run and opened its throttle window, the first
\* timeout of the typed effect is pending
InitApp ==
    /\ savedTheme = Null
    /\ prefersDark = FALSE
    /\ darkTheme = initializeTheme(savedTheme, prefersDark)
    /\ loadedTheme = savedTheme
    /\ toggleTrail = <<>>
    /\ formFilled = FALSE
    /\ submitButton = [innerHTML |-> OriginalText, disabled |-> FALSE]
    /\ status = ""
    /\ pending = <<>>
    /\ lastToast = NoToast
    /\ lightboxActive = FALSE
    /\ bodyOverflow = ""
    /\ lastKeydown = NoKey
    /\ navMobileOpen = FALSE
    /\ mobileToggleActive = FALSE
    /\ backdropActive = FALSE
    /\ bodyMenuOpen = FALSE
    /\ bodyStyle = [position |-> "", top |-> <<>>, width |-> ""]
    /\ scrollY = 0
    /\ innerWidth = 1024
    /\ resizeTimeout = FALSE
    /\ scrollAtOpen = 0
    /\ inThrottle = TRUE
    /\ throttleTimer = << HeaderLimit >>
    /\ headerScrolled = FALSE
    /\ ranFlag = FALSE
    /\ sinceRun = 0
    /\ lastCall = [n |-> 0, ran |-> TRUE]
    /\ phraseIndex = 0
    /\ charIndex = 0
    /\ isDeleting = FALSE
    /\ isPaused = FALSE
    /\ typedText = <<>>
    /\ typeDelay = StartDelay
    /\ shown = {}
    /\ pIndex = 0
    /\ pCharIndex = 1
    /\ deleting = FALSE
    /\ elText = << "F" >>
    /\ tickDelay = tickSpeed

----------------------------------------------------------------------------
(* Initial state: the constructor has run, init() has registered the       *)
(* welcome timer, the container holds no message yet.                      *)

Init ==
    /\ isOpen = FALSE
    /\ hasInteracted = FALSE
    /\ windowActive = FALSE
    /\ badgeDisplay = ""
    /\ knowledgeBase = KnowledgeBaseInit
    /\ inputValue = <<>>
    /\ chatbotMessages = <<>>
    /\ timers = << timer("welcome", <<>>, WelcomeDelay, 0, <<>>, 0) >>
    /\ calls = <<>>
    /\ pmMessage = <<>>
    /\ pmResponse = NoCall
    /\ everOpen = FALSE
    /\ InitApp

----------------------------------------------------------------------------
(* Handlers *)

toggleChatbot ==
    /\ isOpen' = ~isOpen
    /\ windowActive' = ~windowActive
    /\ IF ~isOpen
       THEN /\ hasInteracted' = TRUE
            /\ badgeDisplay' = "none"
       ELSE UNCHANGED <<hasInteracted, badgeDisplay>>
    /\ everOpen' = (everOpen \/ isOpen')
    /\ UNCHANGED <<knowledgeBase, inputValue, chatbotMessages, timers, calls, pmVars, appVars>>

\* the close button wired to the toggle
closeChatbot_Toggle ==
    /\ isOpen' = ~isOpen
    /\ windowActive' = ~windowActive
    /\ everOpen' = (everOpen \/ isOpen')
    /\ UNCHANGED <<hasInteracted, badgeDisplay, knowledgeBase, inputValue,
                   chatbotMessages, timers, calls, pmVars, appVars>>

\* the close button clearing the flag and leaving the class
closeChatbot_FlagOnly ==
    /\ isOpen' = FALSE
    /\ UNCHANGED <<windowActive, hasInteracted, badgeDisplay, everOpen, knowledgeBase,
                   inputValue, chatbotMessages, timers, calls, pmVars, appVars>>

closeChatbot ==
    /\ isOpen' = FALSE
    /\ windowActive' = FALSE
    /\ UNCHANGED <<hasInteracted, badgeDisplay, everOpen, knowledgeBase, inputValue,
                   chatbotMessages, timers, calls, pmVars, appVars>>

\* the text field value tested and sent without trim()
sendMessage_NoTrim(raw) ==
    LET message == raw IN
    /\ IF message = <<>>
       THEN /\ inputValue' = raw
            /\ UNCHANGED <<chatbotMessages, timers>>
       ELSE /\ Len(UserMessages) < MaxUserMsgs
            /\ inputValue' = <<>>
            /\ chatbotMessages' =
                 showTypingIndicator(addMessage(chatbotMessages, message, "user", <<>>))
            /\ timers' = Append(timers, timer("sendReply", message, SendDelay,
                                          Len(UserMessages) + 1, raw, 0))
    /\ UNCHANGED <<widgetVars, knowledgeBase, calls, pmVars, appVars>>

\* the user message and the indicator appended, the reply never scheduled
sendMessage_NoReply(raw) ==
    LET message == trim(raw) IN
    /\ IF message = <<>>
       THEN /\ inputValue' = raw
            /\ UNCHANGED <<chatbotMessages, timers>>
       ELSE /\ Len(UserMessages) < MaxUserMsgs
            /\ inputValue' = <<>>
            /\ chatbotMessages' =
                 showTypingIndicator(addMessage(chatbotMessages, message, "user", <<>>))
            /\ UNCHANGED timers
    /\ UNCHANGED <<widgetVars, knowledgeBase, calls, pmVars, appVars>>

\* sendMessage with raw in the text field
\* the text field value trimmed at its start only
sendMessage_TrimStart(raw) ==
    LET message == trimStart(raw) IN
    /\ IF message = <<>>
       THEN /\ inputValue' = raw
            /\ UNCHANGED <<chatbotMessages, timers>>
       ELSE /\ Len(UserMessages) < MaxUserMsgs
            /\ inputValue' = <<>>
            /\ chatbotMessages' =
                 showTypingIndicator(addMessage(chatbotMessages, message, "user", <<>>))
            /\ timers' = Append(timers, timer("sendReply", message, SendDelay,
                                          Len(UserMessages) + 1, raw, 0))
    /\ UNCHANGED <<widgetVars, knowledgeBase, calls, pmVars, appVars>>

sendMessage(raw) ==
    LET message == trim(raw) IN
    /\ IF message = <<>>
       THEN /\ inputValue' = raw
            /\ UNCHANGED <<chatbotMessages, timers>>
       ELSE /\ Len(UserMessages) < MaxUserMsgs
            /\ inputValue' = <<>>
            /\ chatbotMessages' =
                 showTypingIndicator(addMessage(chatbotMessages, message, "user", <<>>))
            /\ timers' = Append(timers, timer("sendReply", message, SendDelay,
                                          Len(UserMessages) + 1, raw, 0))
    /\ UNCHANGED <<widgetVars, knowledgeBase, calls, pmVars, appVars>>

\* the break of case 'about' left out: the case falls through to default
cannedPhrase_FallThrough(action) ==
    CASE action = "contact" ->
           <<"c","o","n","t","a","c","t"," ","i","n","f","o","r","m","a","t","i","o","n">>
      [] action = "skills" ->
           <<"s","k","i","l","l","s"," ","a","n","d"," ","e","x","p","e","r","i","e","n","c","e">>
      [] action = "projects" ->
           <<"p","r","o","j","e","c","t","s">>
      [] action = "certifications" ->
           <<"c","e","r","t","i","f","i","c","a","t","i","o","n","s">>
      [] OTHER ->
           <<"h","e","l","p">>

\* the phrase the switch of handleQuickReply picks
cannedPhrase(action) ==
    CASE action = "contact" ->
           <<"c","o","n","t","a","c","t"," ","i","n","f","o","r","m","a","t","i","o","n">>
      [] action = "skills" ->
           <<"s","k","i","l","l","s"," ","a","n","d"," ","e","x","p","e","r","i","e","n","c","e">>
      [] action = "projects" ->
           <<"p","r","o","j","e","c","t","s">>
      [] action = "certifications" ->
           <<"c","e","r","t","i","f","i","c","a","t","i","o","n","s">>
      [] action = "about" ->
           <<"a","b","o","u","t"," ","S","i","b","a","b","a","l","w","e">>
      [] OTHER ->
           <<"h","e","l","p">>

\* the click handler opening the window before it answers
handleQuickReply_Opens(action) ==
    LET message == cannedPhrase(action) IN
    /\ Len(UserMessages) < MaxUserMsgs
    /\ isOpen' = TRUE
    /\ windowActive' = TRUE
    /\ hasInteracted' = TRUE
    /\ badgeDisplay' = "none"
    /\ everOpen' = TRUE
    /\ chatbotMessages' = addMessage(chatbotMessages, message, "user", <<>>)
    /\ timers' = Append(timers, timer("quickShow", message, QuickShowDelay,
                                    Len(UserMessages) + 1, action, 0))
    /\ UNCHANGED <<knowledgeBase, inputValue, calls, pmVars, appVars>>

handleQuickReply(action) ==
    LET message == cannedPhrase(action) IN
    /\ Len(UserMessages) < MaxUserMsgs
    /\ chatbotMessages' = addMessage(chatbotMessages, message, "user", <<>>)
    /\ timers' = Append(timers, timer("quickShow", message, QuickShowDelay,
                                    Len(UserMessages) + 1, action, 0))
    /\ UNCHANGED <<widgetVars, knowledgeBase, inputValue, calls, pmVars, appVars>>

----------------------------------------------------------------------------
(* Timer callbacks *)

\* the body shared by the callback of sendMessage and the inner callback of
\* handleQuickReply: hide the indicator, ask processMessage, append the reply
\* processMessage consuming the skills list with shift() as it answers
respond_Shift(i, via, message) ==
    LET response == processMessage(message)
    IN  /\ chatbotMessages' =
             addMessage(hideTypingIndicator(chatbotMessages),
                        response.text, "bot", response.quickReplies)
        /\ timers' = removeTimer(i)
        /\ calls' = Append(calls,
                           [via |-> via, id |-> timers[i].id, input |-> timers[i].input,
                            message |-> message, response |-> response,
                            delay |-> timers[i].since,
                            widget |-> <<isOpen, hasInteracted>>])
        /\ knowledgeBase' = [knowledgeBase EXCEPT !.skills = Tail(@)]
        /\ UNCHANGED <<widgetVars, inputValue, pmVars, appVars>>

respond(i, via, message) ==
    LET response == processMessage(message)
    IN  /\ chatbotMessages' =
             addMessage(hideTypingIndicator(chatbotMessages),
                        response.text, "bot", response.quickReplies)
        /\ timers' = removeTimer(i)
        /\ calls' = Append(calls,
                           [via |-> via, id |-> timers[i].id, input |-> timers[i].input,
                            message |-> message, response |-> response,
                            delay |-> timers[i].since,
                            widget |-> <<isOpen, hasInteracted>>])
        /\ UNCHANGED <<widgetVars, knowledgeBase, inputValue, pmVars, appVars>>

\* the reply registered with setInterval: it runs again every second
sendReplyCallback_Interval(i) ==
    LET response == processMessage(timers[i].message) IN
    /\ timers[i].kind = "sendReply"
    /\ due(i)
    /\ chatbotMessages' =
         addMessage(hideTypingIndicator(chatbotMessages),
                    response.text, "bot", response.quickReplies)
    /\ timers' = [timers EXCEPT ![i].remaining = SendDelay]
    /\ calls' = Append(calls,
                       [via |-> "send", id |-> timers[i].id, input |-> timers[i].input,
                        message |-> timers[i].message, response |-> response,
                        delay |-> timers[i].since,
                        widget |-> <<isOpen, hasInteracted>>])
    /\ UNCHANGED <<widgetVars, knowledgeBase, inputValue, pmVars, appVars>>

sendReplyCallback(i) ==
    /\ timers[i].kind = "sendReply"
    /\ due(i)
    /\ respond(i, "send", timers[i].message)

\* the inner delay counted from the click, not from the outer callback
quickShowCallback_FromClick(i) ==
    /\ timers[i].kind = "quickShow"
    /\ due(i)
    /\ chatbotMessages' = showTypingIndicator(chatbotMessages)
    /\ timers' = Append(removeTimer(i),
                        timer("quickReply", timers[i].message,
                              QuickReplyDelay - QuickShowDelay,
                              timers[i].id, timers[i].input, timers[i].since))
    /\ UNCHANGED <<widgetVars, knowledgeBase, inputValue, calls, pmVars, appVars>>

quickShowCallback(i) ==
    /\ timers[i].kind = "quickShow"
    /\ due(i)
    /\ chatbotMessages' = showTypingIndicator(chatbotMessages)
    /\ timers' = Append(removeTimer(i),
                        timer("quickReply", timers[i].message, QuickReplyDelay,
                              timers[i].id, timers[i].input, timers[i].since))
    /\ UNCHANGED <<widgetVars, knowledgeBase, inputValue, calls, pmVars, appVars>>

\* the inner callback answers '', the value message had before the switch
quickReplyCallback_Empty(i) ==
    /\ timers[i].kind = "quickReply"
    /\ due(i)
    /\ respond(i, "quick", <<>>)

quickReplyCallback(i) ==
    /\ timers[i].kind = "quickReply"
    /\ due(i)
    /\ respond(i, "quick", timers[i].message)

\* the badge shown whatever hasInteracted is
welcomeCallback_Unconditional(i) ==
    /\ timers[i].kind = "welcome"
    /\ due(i)
    /\ badgeDisplay' = "flex"
    /\ timers' = removeTimer(i)
    /\ UNCHANGED <<isOpen, hasInteracted, windowActive, everOpen, knowledgeBase,
                   inputValue, chatbotMessages, calls, pmVars, appVars>>

\* the welcome callback closing the window it finds open
welcomeCallback_Closes(i) ==
    /\ timers[i].kind = "welcome"
    /\ due(i)
    /\ badgeDisplay' = IF ~hasInteracted THEN "flex" ELSE badgeDisplay
    /\ timers' = removeTimer(i)
    /\ isOpen' = FALSE
    /\ windowActive' = FALSE
    /\ UNCHANGED <<hasInteracted, everOpen, knowledgeBase,
                   inputValue, chatbotMessages, calls, pmVars, appVars>>

welcomeCallback(i) ==
    /\ timers[i].kind = "welcome"
    /\ due(i)
    /\ badgeDisplay' = IF ~hasInteracted THEN "flex" ELSE badgeDisplay
    /\ timers' = removeTimer(i)
    /\ UNCHANGED <<isOpen, hasInteracted, windowActive, everOpen, knowledgeBase,
                   inputValue, chatbotMessages, calls, pmVars, appVars>>

\* 100 ms pass: possible only while no pending callback is due
Tick ==
    /\ timers # <<>>
    /\ \A i \in DOMAIN timers : timers[i].remaining > 0
    /\ timers' = [i \in DOMAIN timers |->
                    [timers[i] EXCEPT !.remaining = @ - 1, !.since = @ + 1]]
    /\ UNCHANGED <<widgetVars, knowledgeBase, inputValue, chatbotMessages, calls, pmVars, appVars>>

TimerStep ==
    \E i \in DOMAIN timers :
        \/ sendReplyCallback(i)
        \/ quickShowCallback(i)
        \/ quickReplyCallback(i)
        \/ welcomeCallback(i)

Next ==
    \/ toggleChatbot
    \/ closeChatbot
    \/ \E raw \in RawInputs : sendMessage(raw)
    \/ \E action \in ClickedActions : handleQuickReply(action)
    \/ TimerStep
    \/ Tick

Spec == Init /\ [][Next]_vars

\* The runs checked for progress: one text, one button.  The event loop
\* runs a due callback, and time passes while none is due.
LiveInputs == { <<" ","H","i"," ">> }
LiveActions == {"more"}

NextLive ==
    \/ toggleChatbot
    \/ closeChatbot
    \/ \E raw \in LiveInputs : sendMessage(raw)
    \/ \E action \in LiveActions : handleQuickReply(action)
    \/ TimerStep
    \/ Tick

FairSpec == Init /\ [][NextLive]_vars /\ WF_vars(TimerStep) /\ WF_vars(Tick)

\* Every quick-reply button is clicked, and every canned phrase is typed.
NextQuick ==
    \/ \E action \in QuickActions : handleQuickReply(action)
    \/ \E action \in QuickActions : sendMessage(cannedPhrase(action))
    \/ TimerStep
    \/ Tick

SpecQuick == Init /\ [][NextQuick]_vars

----------------------------------------------------------------------------
(* processMessage called directly, on one argument out of a bounded set    *)

\* words and fragments an argument is put together from: the keywords of
\* the chain, words in other letter case, fragments that make up a keyword
\* only when concatenated, and words that hold none
Vocabulary ==
    { <<"e","m","a","i","l">>,
      <<"c","o","n","t","a","c","t">>,
      <<"r","e","a","c","h">>,
      <<"p","h","o","n","e">>,
      <<"c","a","l","l">>,
      <<"n","u","m","b","e","r">>,
      <<"s","k","i","l","l">>,
      <<"t","e","c","h","n","o","l","o","g","y">>,
      <<"t","e","c","h"," ","s","t","a","c","k">>,
      <<"p","r","o","j","e","c","t">>,
      <<"w","o","r","k">>,
      <<"p","o","r","t","f","o","l","i","o">>,
      <<"c","e","r","t","i","f","i","c","a","t","e">>,
      <<"c","e","r","t","i","f","i","c","a","t","i","o","n">>,
      <<"c","r","e","d","e","n","t","i","a","l">>,
      <<"e","x","p","e","r","i","e","n","c","e">>,
      <<"b","a","c","k","g","r","o","u","n","d">>,
      <<"a","b","o","u","t">>,
      <<"h","i","r","e">>,
      <<"a","v","a","i","l","a","b","l","e">>,
      <<"f","r","e","e","l","a","n","c","e">>,
      <<"h","e","l","l","o">>,
      <<"h","i">>,
      <<"h","e","y">>,
      <<"b","a","n","a","n","a">>,
      <<" ">>,
      <<"E","M","A","I","L">>,
      <<"P","h","o","n","e">>,
      <<"H","i">>,
      <<"h">>,
      <<"i">>,
      <<"w","o","r">>,
      <<"k">>,
      <<"t","h","i","s">>,
      <<"t","e","c">>,
      <<"s","h","o","w"," ","m","e"," ","y","o","u","r"," ","p","r","o","j","e","c","t">>,
      <<" ","a","n","d"," ","c","o","n","t","a","c","t"," ","e","m","a","i","l">>,
      <<"h","e","l","p">>,
      <<"a","b","o","u","t"," ","S","i","b","a","b","a","l","w","e">> }

RECURSIVE concat(_)
concat(chunks) ==
    IF chunks = <<>> THEN <<>> ELSE Head(chunks) \o concat(Tail(chunks))

Inputs ==
    { concat(chunks) : chunks \in UNION { [1..n -> Vocabulary] : n \in 0..MaxChunks } }

InitPM ==
    /\ isOpen = FALSE
    /\ hasInteracted = FALSE
    /\ windowActive = FALSE
    /\ badgeDisplay = ""
    /\ knowledgeBase = KnowledgeBaseInit
    /\ inputValue = <<>>
    /\ chatbotMessages = <<>>
    /\ timers = << timer("welcome", <<>>, WelcomeDelay, 0, <<>>, 0) >>
    /\ calls = <<>>
    /\ pmMessage \in Inputs
    /\ pmResponse = NoCall
    /\ everOpen = FALSE
    /\ InitApp

callProcessMessage ==
    /\ pmResponse = NoCall
    /\ pmResponse' = processMessage(pmMessage)
    /\ UNCHANGED <<widgetVars, knowledgeBase, inputValue, chatbotMessages, timers,
                   calls, pmMessage, appVars>>

NextPM == callProcessMessage

SpecPM == InitPM /\ [][NextPM]_vars

----------------------------------------------------------------------------
(* The mobile navigation menu (PortfolioApp.setupMobileMenu) *)

\* scroll positions are counted in half pixels: window.scrollY is a
\* fraction of a pixel on displays whose pixel ratio is not whole
PxUnits == 2

\* window.scrollY of the page: 0 px, 120 px, 120.5 px, 640 px
ScrollPositions == {0, 240, 241, 1280}

\* window.innerWidth below and above the 768 px of the resize listener
Widths == {480, 1024}

\* body.style with position, top and width cleared
StyleNone == [position |-> "", top |-> <<>>, width |-> ""]

\* parseInt(scrollY || '0') for scrollY = body.style.top: the whole pixels
\* of '-<y>px', cut toward zero; 0 for ''
parseIntTop(top) ==
    IF top = <<>> THEN 0
    ELSE IF top[1] < 0 THEN -((-top[1]) \div PxUnits) ELSE top[1] \div PxUnits

\* window.scrollTo(0, y), y in pixels
scrollTo(y) == IF y < 0 THEN 0 ELSE y * PxUnits

\* openMobileMenu.  With the body fixed at top -scrollY the document has
\* nothing left to scroll: window.scrollY reads 0 while the menu is open.
openMobileMenu ==
    /\ navMobileOpen' = TRUE
    /\ mobileToggleActive' = TRUE
    /\ backdropActive' = TRUE
    /\ bodyMenuOpen' = TRUE
    /\ bodyStyle' = [position |-> "fixed", top |-> << -scrollY >>, width |-> "100%"]
    /\ scrollAtOpen' = scrollY
    /\ scrollY' = 0

\* closeMobileMenu with the body left fixed
closeMobileMenu_KeepsFixed ==
    /\ navMobileOpen' = FALSE
    /\ mobileToggleActive' = FALSE
    /\ backdropActive' = FALSE
    /\ bodyMenuOpen' = FALSE
    /\ bodyStyle' = [bodyStyle EXCEPT !.top = <<>>, !.width = ""]
    /\ scrollY' = scrollTo(parseIntTop(bodyStyle.top) * (-1))
    /\ UNCHANGED scrollAtOpen

closeMobileMenu ==
    /\ navMobileOpen' = FALSE
    /\ mobileToggleActive' = FALSE
    /\ backdropActive' = FALSE
    /\ bodyMenuOpen' = FALSE
    /\ bodyStyle' = StyleNone
    /\ scrollY' = scrollTo(parseIntTop(bodyStyle.top) * (-1))
    /\ UNCHANGED scrollAtOpen

\* what no listener of the menu writes
outsideMenu == <<chatVars, themeVars, formVars, lastToast, lightboxVars,
                 headerVars, typedVars, tickVars>>

\* click on #mobileMenuToggle (stopPropagation: no document listener runs)
mobileToggleClick ==
    /\ IF navMobileOpen THEN closeMobileMenu ELSE openMobileMenu
    /\ UNCHANGED <<outsideMenu, lastKeydown, resizeVars>>

\* click on #mobileMenuBackdrop; the document listener then finds the menu
\* closed
backdropClick ==
    /\ closeMobileMenu
    /\ UNCHANGED <<outsideMenu, lastKeydown, resizeVars>>

\* click on a .nav-link
navLinkClick ==
    /\ closeMobileMenu
    /\ UNCHANGED <<outsideMenu, lastKeydown, resizeVars>>

\* click anywhere outside the menu and its toggle
outsideClick ==
    /\ IF navMobileOpen THEN closeMobileMenu ELSE UNCHANGED menuVars
    /\ UNCHANGED <<outsideMenu, lastKeydown, resizeVars>>

\* a resize event: debounce clears the pending timeout and sets a new one
resize(width) ==
    /\ innerWidth' = width
    /\ resizeTimeout' = TRUE
    /\ UNCHANGED <<outsideMenu, lastKeydown, menuVars>>

\* the debounced resize listener, 250 ms after the last resize event
resizeCallback ==
    /\ resizeTimeout
    /\ resizeTimeout' = FALSE
    /\ IF innerWidth > 768 /\ navMobileOpen
       THEN closeMobileMenu
       ELSE UNCHANGED menuVars
    /\ UNCHANGED <<outsideMenu, lastKeydown, innerWidth>>

\* the visitor scrolls the page, which a fixed body does not allow
scroll(y) ==
    /\ bodyStyle.position # "fixed"
    /\ scrollY' = y
    /\ UNCHANGED <<outsideMenu, lastKeydown, resizeVars, navMobileOpen,
                   mobileToggleActive, backdropActive, bodyMenuOpen, bodyStyle,
                   scrollAtOpen>>

----------------------------------------------------------------------------
(* The header scroll effect: throttle(func, limit) around the class toggle *)

\* what neither handleScroll nor its timeout writes
outsideHeader == <<chatVars, themeVars, formVars, lastToast, lightboxVars,
                   typedVars, tickVars, lastKeydown, menuVars,
                   resizeVars>>

\* the function setupHeaderEffects wraps: toggles 'scrolled' by window.scrollY
headerFunc ==
    /\ headerScrolled' = (scrollY > 50)
    /\ ranFlag' = ~ranFlag

\* handleScroll, the function throttle returns, called by a scroll event
handleScroll ==
    /\ IF ~inThrottle
         THEN /\ headerFunc
              /\ inThrottle' = TRUE
              /\ throttleTimer' = << HeaderLimit >>
              /\ sinceRun' = 0
              /\ lastCall' = [n |-> 1 - lastCall.n, ran |-> TRUE]
         ELSE /\ lastCall' = [n |-> 1 - lastCall.n, ran |-> FALSE]
              /\ UNCHANGED <<inThrottle, throttleTimer, headerScrolled, ranFlag,
                             sinceRun>>
    /\ UNCHANGED outsideHeader

\* throttleTimeout with a trailing invocation of the wrapped function
throttleTimeout_Replay ==
    /\ throttleTimer = << 0 >>
    /\ inThrottle' = FALSE
    /\ throttleTimer' = <<>>
    /\ headerFunc
    /\ UNCHANGED <<sinceRun, lastCall>>
    /\ UNCHANGED outsideHeader

\* the callback of throttle's setTimeout: () => inThrottle = false
throttleTimeout ==
    /\ throttleTimer = << 0 >>
    /\ inThrottle' = FALSE
    /\ throttleTimer' = <<>>
    /\ UNCHANGED <<headerScrolled, ranFlag, sinceRun, lastCall>>
    /\ UNCHANGED outsideHeader

\* one millisecond passes; a due timeout runs before time moves on
tickMs ==
    /\ throttleTimer # << 0 >>
    /\ throttleTimer' = IF throttleTimer = <<>> THEN <<>>
                        ELSE << throttleTimer[1] - 1 >>
    /\ sinceRun' = IF sinceRun < HeaderLimit THEN sinceRun + 1 ELSE sinceRun
    /\ UNCHANGED <<inThrottle, headerScrolled, ranFlag, lastCall>>
    /\ UNCHANGED outsideHeader

NextHeader ==
    \/ \E y \in ScrollPositions : scroll(y)
    \/ handleScroll
    \/ throttleTimeout
    \/ tickMs

\* timeouts run when they are due and time goes on
FairHeader ==
    /\ Init
    /\ [][NextHeader]_vars
    /\ WF_vars(throttleTimeout)
    /\ WF_vars(tickMs)

-----------------------------------------------------------------------------
(* The image lightbox and the keyboard *)

\* click on a .lightbox-trigger image
openLightbox ==
    /\ lightboxActive' = TRUE
    /\ bodyOverflow' = "hidden"
    /\ UNCHANGED <<chatVars, themeVars, formVars, lastToast, lastKeydown,
                   restVars>>

\* click on .lightbox-close or on the modal's background
closeLightbox ==
    /\ lightboxActive' = FALSE
    /\ bodyOverflow' = "auto"
    /\ UNCHANGED <<chatVars, themeVars, formVars, lastToast, lastKeydown,
                   restVars>>

\* keys of the keydown events dispatched to the document
Keys == {"Escape", "Tab"}

\* the widget's listener closes it on every keydown of Escape
keydown_ClosesChatbot(key) ==
    /\ lastKeydown' = [key |-> key, isOpen |-> isOpen]
    /\ IF key = "Escape" /\ lightboxActive
       THEN /\ lightboxActive' = FALSE
            /\ bodyOverflow' = "auto"
       ELSE UNCHANGED lightboxVars
    /\ IF key = "Escape" /\ navMobileOpen
       THEN closeMobileMenu
       ELSE UNCHANGED menuVars
    /\ IF key = "Escape"
       THEN /\ isOpen' = FALSE
            /\ windowActive' = FALSE
       ELSE UNCHANGED <<isOpen, windowActive>>
    /\ UNCHANGED <<hasInteracted, badgeDisplay, everOpen, knowledgeBase, inputValue,
                   chatbotMessages, timers, calls, pmVars, themeVars, formVars,
                   lastToast, resizeVars, headerVars, typedVars, tickVars>>

\* A keydown event on the page.  PortfolioChatbot.init registers no keydown
\* listener (its only key listener is keypress of Enter on the text field);
\* the listener of initLightbox closes the lightbox on Escape and the one
\* of setupMobileMenu closes the navigation menu.  The Escape listener of the
\* project modal acts on that modal only.
keydown(key) ==
    /\ lastKeydown' = [key |-> key, isOpen |-> isOpen]
    /\ IF key = "Escape" /\ lightboxActive
       THEN /\ lightboxActive' = FALSE
            /\ bodyOverflow' = "auto"
       ELSE UNCHANGED lightboxVars
    /\ IF key = "Escape" /\ navMobileOpen
       THEN closeMobileMenu
       ELSE UNCHANGED menuVars
    /\ UNCHANGED <<chatVars, themeVars, formVars, lastToast, resizeVars,
                   headerVars, typedVars, tickVars>>

\* The widget, the lightbox and the keyboard
NextWidget ==
    \/ toggleChatbot
    \/ closeChatbot
    \/ openLightbox
    \/ closeLightbox
    \/ \E key \in Keys : keydown(key)
    \/ \E i \in DOMAIN timers : welcomeCallback(i)
    \/ Tick

SpecWidget == Init /\ [][NextWidget]_vars

\* The navigation menu: its clicks, the keyboard, resizes and scrolling
NextMenu ==
    \/ mobileToggleClick
    \/ backdropClick
    \/ navLinkClick
    \/ outsideClick
    \/ \E key \in Keys : keydown(key)
    \/ \E width \in Widths : resize(width)
    \/ resizeCallback
    \/ \E y \in ScrollPositions : scroll(y)

SpecMenu == Init /\ [][NextMenu]_vars

----------------------------------------------------------------------------
(* Theme toggle and contact form (class PortfolioApp) *)

\* showToast(message, type): the toast appended to the body
showToast(message, type) == [type |-> type, message |-> message]

\* the value toggleTheme stores for a theme
ThemeItem(isDark) == IF isDark THEN "dark" ELSE "light"

\* the last two entries of the trail after one more toggle
pushTrail(trail, snapshot) ==
    IF Len(trail) < 2 THEN Append(trail, snapshot) ELSE <<trail[2], snapshot>>

\* the stored value written for the theme that was displayed before
toggleTheme_StoresOld ==
    LET isDark == ~darkTheme IN
    /\ darkTheme' = isDark
    /\ savedTheme' = ThemeItem(darkTheme)
    /\ lastToast' = showToast(IF isDark THEN "Dark mode enabled"
                                        ELSE "Light mode enabled", "info")
    /\ toggleTrail' = pushTrail(toggleTrail, [dark |-> darkTheme, saved |-> savedTheme])
    /\ UNCHANGED <<chatVars, prefersDark, loadedTheme, formVars, lightboxVars,
                   lastKeydown, restVars>>

\* click on #themeToggle
toggleTheme ==
    LET isDark == ~darkTheme IN
    /\ darkTheme' = isDark
    /\ savedTheme' = ThemeItem(isDark)
    /\ lastToast' = showToast(IF isDark THEN "Dark mode enabled"
                                        ELSE "Light mode enabled", "info")
    /\ toggleTrail' = pushTrail(toggleTrail, [dark |-> darkTheme, saved |-> savedTheme])
    /\ UNCHANGED <<chatVars, prefersDark, loadedTheme, formVars, lightboxVars,
                   lastKeydown, restVars>>

\* The page is loaded again.  localStorage is all that survives; the OS
\* colour scheme may have changed meanwhile; a request in flight is dropped
\* with the page that made it.
reload ==
    /\ prefersDark' \in BOOLEAN
    /\ savedTheme' = savedTheme
    /\ loadedTheme' = savedTheme
    /\ darkTheme' = initializeTheme(savedTheme, prefersDark')
    /\ toggleTrail' = <<>>
    /\ formFilled' = FALSE
    /\ submitButton' = [innerHTML |-> OriginalText, disabled |-> FALSE]
    /\ status' = ""
    /\ pending' = <<>>
    /\ lastToast' = NoToast
    /\ lightboxActive' = FALSE
    /\ bodyOverflow' = ""
    /\ lastKeydown' = NoKey
    /\ navMobileOpen' = FALSE
    /\ mobileToggleActive' = FALSE
    /\ backdropActive' = FALSE
    /\ bodyMenuOpen' = FALSE
    /\ bodyStyle' = StyleNone
    /\ scrollY' = 0
    /\ innerWidth' = innerWidth
    /\ resizeTimeout' = FALSE
    /\ scrollAtOpen' = 0
    /\ inThrottle' = TRUE
    /\ throttleTimer' = << HeaderLimit >>
    /\ headerScrolled' = FALSE
    /\ ranFlag' = FALSE
    /\ sinceRun' = 0
    /\ lastCall' = [n |-> 0, ran |-> TRUE]
    /\ phraseIndex' = 0
    /\ charIndex' = 0
    /\ isDeleting' = FALSE
    /\ isPaused' = FALSE
    /\ typedText' = <<>>
    /\ typeDelay' = StartDelay
    /\ shown' = {}
    /\ pIndex' = 0
    /\ pCharIndex' = 1
    /\ deleting' = FALSE
    /\ elText' = << "F" >>
    /\ tickDelay' = tickSpeed
    /\ isOpen' = FALSE
    /\ hasInteracted' = FALSE
    /\ windowActive' = FALSE
    /\ badgeDisplay' = ""
    /\ everOpen' = FALSE
    /\ knowledgeBase' = KnowledgeBaseInit
    /\ inputValue' = <<>>
    /\ chatbotMessages' = <<>>
    /\ timers' = << timer("welcome", <<>>, WelcomeDelay, 0, <<>>, 0) >>
    /\ calls' = <<>>
    /\ UNCHANGED pmVars

\* the visitor types into the fields of #contact-form
fillForm ==
    /\ formFilled' = TRUE
    /\ UNCHANGED <<chatVars, themeVars, submitButton, status, pending, lastToast,
                   lightboxVars, lastKeydown,
                   restVars>>

\* The submit listener up to its await.  The browser dispatches no submit
\* event through a disabled submit button, so the listener is not entered
\* again before the button is enabled.
submit ==
    /\ ~submitButton.disabled
    /\ pending' = Append(pending, [originalText |-> submitButton.innerHTML])
    /\ submitButton' = [innerHTML |-> SendingText, disabled |-> TRUE]
    /\ UNCHANGED <<chatVars, themeVars, formFilled, status, lastToast,
                   lightboxVars, lastKeydown,
                   restVars>>

\* how a fetch ends: response.ok, a response that is not ok, a rejection
Outcomes == {"ok", "notOk", "rejected"}

\* form.reset() moved into the finally block
fetchSettles_ResetAlways(outcome) ==
    /\ pending # <<>>
    /\ IF outcome = "ok"
       THEN /\ status' = "form-status success"
            /\ lastToast' = showToast("Message sent successfully!", "success")
       ELSE /\ status' = "form-status error"
            /\ lastToast' = showToast("Failed to send message. Please try again.",
                                      "error")
    /\ formFilled' = FALSE
    /\ submitButton' = [innerHTML |-> Head(pending).originalText, disabled |-> FALSE]
    /\ pending' = Tail(pending)
    /\ UNCHANGED <<chatVars, themeVars, lightboxVars, lastKeydown,
                   restVars>>

\* The submit listener from its await to its end: the try branch or the
\* catch block, then the finally block.  The page has a #form-status.
fetchSettles(outcome) ==
    /\ pending # <<>>
    /\ IF outcome = "ok"
       THEN /\ status' = "form-status success"
            /\ lastToast' = showToast("Message sent successfully!", "success")
            /\ formFilled' = FALSE
       ELSE /\ status' = "form-status error"
            /\ lastToast' = showToast("Failed to send message. Please try again.",
                                      "error")
            /\ formFilled' = formFilled
    /\ submitButton' = [innerHTML |-> Head(pending).originalText, disabled |-> FALSE]
    /\ pending' = Tail(pending)
    /\ UNCHANGED <<chatVars, themeVars, lightboxVars, lastKeydown,
                   restVars>>

NextApp ==
    \/ toggleTheme
    \/ reload
    \/ fillForm
    \/ submit
    \/ \E outcome \in Outcomes : fetchSettles(outcome)

SpecApp == Init /\ [][NextApp]_vars

----------------------------------------------------------------------------
(* The typed effect of the hero section (PortfolioApp.setupTypedEffect) *)

\* the phrases, in declaration order
phrases ==
    <<
        <<"F", "u", "l", "l", "-", "S", "t", "a", "c", "k", " ", "D", "e",
          "v", "e", "l", "o", "p", "e", "r">>,
        <<"A", "I", " ", "E", "n", "g", "i", "n", "e", "e", "r">>,
        <<"P", "r", "o", "m", "p", "t", " ", "E", "n", "g", "i", "n", "e",
          "e", "r">>,
        <<"D", "a", "t", "a", " ", "A", "n", "a", "l", "y", "s", "t">>,
        <<"P", "r", "o", "b", "l", "e", "m", " ", "S", "o", "l", "v", "e",
          "r">>,
        <<"T", "e", "c", "h", " ", "E", "n", "t", "h", "u", "s", "i", "a",
          "s", "t">>
    >>

\* delays of setupTypedEffect, in ms
typeSpeed == 100
deleteSpeed == 50
pauseTime == 2000

\* String.prototype.substring(start, end) for start <= end: both indices are
\* clamped to 0..length, the characters from start up to end - 1 are kept
substring(s, start, end) ==
    LET clamp(n) == IF n < 0 THEN 0 ELSE IF n > Len(s) THEN Len(s) ELSE n
    IN  SubSeq(s, clamp(start) + 1, clamp(end))

\* the phrase being typed or deleted
currentPhrase == phrases[phraseIndex + 1]

\* (phraseIndex + 1) % phrases.length, two phrases on
nextPhrase_Skip(i) == (i + 2) % Len(phrases)

\* (phraseIndex + 1) % phrases.length
nextPhrase(i) == (i + 1) % Len(phrases)

\* what the typed effect does not write
outsideTyped == <<chatVars, themeVars, formVars, lastToast, lightboxVars,
                  headerVars, lastKeydown, menuVars, resizeVars>>

\* type(), the callback of every setTimeout of the effect
type ==
    /\ IF isPaused
         THEN /\ isPaused' = FALSE
              /\ typeDelay' = pauseTime
              /\ UNCHANGED <<phraseIndex, charIndex, isDeleting, typedText>>
         ELSE IF isDeleting
         THEN /\ typedText' = substring(currentPhrase, 0, charIndex - 1)
              /\ charIndex' = charIndex - 1
              /\ IF charIndex' = 0
                   THEN /\ isDeleting' = FALSE
                        /\ phraseIndex' = nextPhrase(phraseIndex)
                   ELSE UNCHANGED <<isDeleting, phraseIndex>>
              /\ typeDelay' = IF isDeleting' THEN deleteSpeed ELSE typeSpeed
              /\ UNCHANGED isPaused
         ELSE /\ typedText' = substring(currentPhrase, 0, charIndex + 1)
              /\ charIndex' = charIndex + 1
              /\ IF charIndex' = Len(currentPhrase)
                   THEN /\ isDeleting' = TRUE
                        /\ isPaused' = TRUE
                   ELSE UNCHANGED <<isDeleting, isPaused>>
              /\ typeDelay' = IF isDeleting' THEN deleteSpeed ELSE typeSpeed
              /\ UNCHANGED phraseIndex
    /\ shown' = IF typedText' = currentPhrase THEN shown \cup {phraseIndex}
                ELSE shown
    /\ UNCHANGED <<outsideTyped, tickVars>>

-----------------------------------------------------------------------------
(* The typed effect of src/unnamed/part_002 (typedEffect) *)

\* its phrases, in declaration order
tickPhrases ==
    <<
        <<"F", "u", "l", "l", "s", "t", "a", "c", "k", " ", "D", "e", "v", "e",
          "l", "o", "p", "e", "r">>,
        <<"A", "I", " ", "&", " ", "P", "r", "o", "m", "p", "t", " ", "E", "n",
          "g", "i", "n", "e", "e", "r">>,
        <<"D", "a", "t", "a", " ", "E", "n", "t", "h", "u", "s", "i", "a", "s",
          "t">>,
        <<"P", "r", "o", "b", "l", "e", "m", " ", "S", "o", "l", "v", "e", "r">>
    >>

\* typeSpeed / 2
tickSpeedHalf == 30

\* pause of typedEffect, in ms
pause == 1400

\* String.prototype.slice(0, end) for 0 <= end: the first end characters
slice(s, end) == SubSeq(s, 1, IF end > Len(s) THEN Len(s) ELSE end)

\* const current = phrases[pIndex]
current == tickPhrases[pIndex + 1]

\* tick(), the callback of every setTimeout of typedEffect
tick ==
    /\ IF ~deleting
         THEN /\ pCharIndex' = pCharIndex + 1
              /\ elText' = slice(current, pCharIndex')
              /\ IF pCharIndex' = Len(current)
                   THEN /\ deleting' = TRUE
                        /\ tickDelay' = pause
                   ELSE /\ tickDelay' = tickSpeed
                        /\ UNCHANGED deleting
              /\ UNCHANGED pIndex
         ELSE /\ pCharIndex' = pCharIndex - 1
              /\ elText' = slice(current, pCharIndex')
              /\ IF pCharIndex' = 0
                   THEN /\ deleting' = FALSE
                        /\ pIndex' = (pIndex + 1) % Len(tickPhrases)
                   ELSE UNCHANGED <<deleting, pIndex>>
              /\ tickDelay' = IF deleting' THEN tickSpeedHalf ELSE tickSpeed
    /\ UNCHANGED <<outsideTyped, typedVars>>

NextTyped ==
    \/ type
    \/ tick

\* every timeout of the effect fires
FairTyped ==
    /\ Init
    /\ [][NextTyped]_vars
    /\ WF_vars(type)
    /\ WF_vars(tick)

-----------------------------------------------------------------------------
(* The rule table of the specification, rules 1 to 8; rule 9 has no        *)
(* keyword and always matches.                                             *)

RuleKeywords ==
    << { <<"e","m","a","i","l">>, <<"c","o","n","t","a","c","t">>, <<"r","e","a","c","h">> },
       { <<"p","h","o","n","e">>, <<"c","a","l","l">>, <<"n","u","m","b","e","r">> },
       { <<"s","k","i","l","l">>, <<"t","e","c","h","n","o","l","o","g","y">>, <<"t","e","c","h"," ","s","t","a","c","k">> },
       { <<"p","r","o","j","e","c","t">>, <<"w","o","r","k">>, <<"p","o","r","t","f","o","l","i","o">> },
       { <<"c","e","r","t","i","f","i","c","a","t","e">>, <<"c","e","r","t","i","f","i","c","a","t","i","o","n">>, <<"c","r","e","d","e","n","t","i","a","l">> },
       { <<"e","x","p","e","r","i","e","n","c","e">>, <<"b","a","c","k","g","r","o","u","n","d">>, <<"a","b","o","u","t">> },
       { <<"h","i","r","e">>, <<"a","v","a","i","l","a","b","l","e">>, <<"f","r","e","e","l","a","n","c","e">> },
       { <<"h","e","l","l","o">>, <<"h","i">>, <<"h","e","y">> } >>

\* a and b are the same letter, in whatever case
SameLetter(a, b) ==
    \/ a = b
    \/ \E n \in DOMAIN Lower : {a, b} = {Lower[n], Upper[n]}

\* kw occurs in s at some position, letter case ignored
ContainsIgnoringCase(s, kw) ==
    \E i \in 0..(Len(s) - Len(kw)) :
        \A k \in 1..Len(kw) : SameLetter(s[i + k], kw[k])

RuleMatches(r, s) ==
    r = 9 \/ \E kw \in RuleKeywords[r] : ContainsIgnoringCase(s, kw)

FirstRule(s) ==
    CHOOSE r \in 1..9 : RuleMatches(r, s) /\ \A q \in 1..(r - 1) : ~RuleMatches(q, s)

\* what the table assigns to each rule: the opening words of the topic,
\* the knowledge-base values the topic shows, in order, and the action tags
\* of the quick replies, in order
RuleLead ==
    << "You can reach Sibabalwe at:<br><br>Email: <strong>",
       "You can call Sibabalwe at: <strong>",
       "Sibabalwe's key skills include:<br><br>",
       "Here are some featured projects:<br><br>",
       "Sibabalwe holds the following professional certifications:<br><br>",
       "Sibabalwe is a passionate full-stack developer with ",
       "Sibabalwe is open to new opportunities!<br><br>For project inquiries or collaboration:<br>",
       "Hello! I'm here to help you learn more about Sibabalwe's work and experience. What would you like to know?",
       "I can help you with information about:<br><br>* Contact details (email, phone)<br>* Skills and experience<br>* Professional certifications<br>* Projects and portfolio<br>* Availability for hire<br><br>What would you like to know?" >>

RuleValues ==
    LET kb == KnowledgeBaseInit IN
    << << kb.contact.email, kb.contact.phone, kb.contact.location >>,
       << kb.contact.phone, kb.contact.email >>,
       kb.skills \o << kb.experience >>,
       << kb.projects[1].name, kb.projects[1].description,
          kb.projects[2].name, kb.projects[2].description,
          kb.projects[3].name, kb.projects[3].description,
          kb.projects[4].name, kb.projects[4].description >>,
       kb.certifications,
       << kb.experience, kb.education >>,
       << kb.contact.email, kb.contact.phone >>,
       << >>,
       << >> >>

RuleActions ==
    << << "projects", "skills" >>,
       << "projects", "about" >>,
       << "projects", "contact" >>,
       << "contact", "skills" >>,
       << "projects", "contact" >>,
       << "projects", "certifications", "contact" >>,
       << "projects", "skills" >>,
       << "contact", "skills", "projects" >>,
       << "contact", "certifications", "projects" >> >>

KbStrings ==
    LET kb == KnowledgeBaseInit IN
    { kb.contact.email, kb.contact.phone, kb.contact.location, kb.contact.linkedin,
      kb.contact.github, kb.experience, kb.education }
    \cup { kb.skills[i] : i \in DOMAIN kb.skills }
    \cup { kb.certifications[i] : i \in DOMAIN kb.certifications }
    \cup { kb.projects[i].name : i \in DOMAIN kb.projects }
    \cup { kb.projects[i].description : i \in DOMAIN kb.projects }
    \cup { kb.projects[i].link : i \in DOMAIN kb.projects }

\* the knowledge-base values a response text shows, in order
ShownValues(text) == SelectSeq(text, LAMBDA part : part \in KbStrings)

\* the action tags of a quick-reply list, in order
ActionTags(quickReplies) == [i \in DOMAIN quickReplies |-> quickReplies[i].action]

\* response is what the table assigns to rule r
IsRuleResponse(response, r) ==
    /\ response # Undefined
    /\ Head(response.text) = RuleLead[r]
    /\ ShownValues(response.text) = RuleValues[r]
    /\ ActionTags(response.quickReplies) = RuleActions[r]

----------------------------------------------------------------------------
\* C1: processMessage returns, for every argument, the response of the first
\* rule in the order 1..9 one of whose keywords occurs in the argument with
\* letter case ignored; an argument with keywords of two rules gets the
\* response of the earlier rule.
C1_FirstMatchWins ==
    pmResponse # NoCall => IsRuleResponse(pmResponse, FirstRule(pmMessage))

\* "show me your project and contact email" (rules 1 and 4) has been answered
C1_Witness ==
    /\ pmResponse # NoCall
    /\ pmMessage = <<"s","h","o","w"," ","m","e"," ","y","o","u","r"," ","p","r","o","j","e","c","t",
                     " ","a","n","d"," ","c","o","n","t","a","c","t"," ","e","m","a","i","l">>
    /\ RuleMatches(4, pmMessage)
    /\ FirstRule(pmMessage) = 1

\* C2: for every non-empty argument processMessage returns a response, with
\* a non-empty text and a list of quick replies.
C2_Total ==
    (pmResponse # NoCall /\ pmMessage # <<>>) =>
        /\ pmResponse # Undefined
        /\ DOMAIN pmResponse = {"text", "quickReplies"}
        /\ Len(pmResponse.text) > 0
        /\ \A i \in DOMAIN pmResponse.text : pmResponse.text[i] # ""
        /\ DOMAIN pmResponse.quickReplies = 1..Len(pmResponse.quickReplies)

\* "banana", which only rule 9 matches, has been answered
C2_Witness ==
    /\ pmResponse # NoCall
    /\ pmMessage = <<"b","a","n","a","n","a">>
    /\ FirstRule(pmMessage) = 9
    /\ Len(pmResponse.text) > 0

IsFallback(response) ==
    /\ response # Undefined
    /\ Head(response.text) = RuleLead[9]
    /\ ActionTags(response.quickReplies) = << "contact", "certifications", "projects" >>

\* C3: the capability menu with quick replies Contact, Certifications,
\* Projects is returned for exactly the arguments that hold no keyword of
\* rules 1 to 8.
C3_FallbackCoverage ==
    pmResponse # NoCall =>
        (IsFallback(pmResponse) <=> \A r \in 1..8 : ~RuleMatches(r, pmMessage))

\* a keyword-free argument of two chunks has got the menu
C3_Witness ==
    /\ pmResponse # NoCall
    /\ pmMessage = <<"b","a","n","a","n","a","h","e","l","p">>
    /\ IsFallback(pmResponse)

----------------------------------------------------------------------------
(* The widget: messages, replies and their timers *)

Settled == ReplyTimers = <<>>

\* C4: every non-blank submission appends one user message at once and one
\* bot message later: the bot replies never outnumber the user messages,
\* every user message has either its reply or its pending timer, never
\* both and never two, and the two counts are equal when no reply timer is
\* pending.
C4_OneReplyPerMessage ==
    /\ Len(BotMessages) = Len(calls)
    /\ Len(BotMessages) <= Len(UserMessages)
    /\ Len(ReplyTimers) + Len(calls) = Len(UserMessages)
    /\ \A i, j \in DOMAIN calls : i # j => calls[i].id # calls[j].id
    /\ Settled => Len(BotMessages) = Len(UserMessages)

\* a typed message and a quick reply have both been answered
C4_Witness ==
    /\ Settled
    /\ Len(UserMessages) = 2
    /\ Len(BotMessages) = 2
    /\ \E i, j \in DOMAIN calls : calls[i].via = "send" /\ calls[j].via = "quick"

\* C5: once the k-th user message has been appended, its bot reply is
\* eventually appended, whatever toggle, close, submission or quick-reply
\* click happens in between.
C5_ReplyEventually ==
    \A k \in 1..MaxUserMsgs :
        (Len(UserMessages) >= k) ~> (\E i \in DOMAIN calls : calls[i].id = k)

\* the first message has been answered with the window closed again and
\* the second message still waiting
C5_Witness ==
    /\ \E i \in DOMAIN calls : calls[i].id = 1 /\ calls[i].widget = <<FALSE, TRUE>>
    /\ Len(UserMessages) = 2
    /\ Len(ReplyTimers) = 1

\* C6: sendMessage on an empty or blank text field leaves the container
\* and the timers as they are: no user message, no typing indicator, no
\* reply scheduled.
C6_BlankNoOp ==
    [][ (\E raw \in RawInputs : trim(raw) = <<>> /\ sendMessage(raw))
            => UNCHANGED <<chatbotMessages, timers, calls>> ]_vars

\* three blanks have been submitted while a reply was pending
C6_Witness ==
    /\ inputValue = <<" "," "," ">>
    /\ Len(UserMessages) = 1
    /\ Len(ReplyTimers) = 1

\* C7: the reply to a quick-reply click on tag t equals the reply to t's
\* canned phrase typed and sent ("skills" against "skills and experience"
\* in particular), and a settled transcript ends in the reply of the last
\* call.
C7_RoundTrip ==
    /\ \A i, j \in DOMAIN calls :
          ( /\ calls[i].via = "quick"
            /\ calls[j].via = "send"
            /\ calls[j].input = cannedPhrase(calls[i].input) )
          => calls[j].response = calls[i].response
    /\ \A i, j \in DOMAIN calls :
          ( /\ calls[i].via = "quick"
            /\ calls[i].input = "skills"
            /\ calls[j].via = "send"
            /\ calls[j].input = <<"s","k","i","l","l","s"," ","a","n","d"," ",
                                  "e","x","p","e","r","i","e","n","c","e">> )
          => calls[j].response = calls[i].response
    /\ (Settled /\ calls # <<>>) =>
          LET last == chatbotMessages[Len(chatbotMessages)]
              response == calls[Len(calls)].response
          IN  /\ last.className = "bot"
              /\ last.text = response.text
              /\ last.quickReplies = response.quickReplies

\* "skills" has been clicked and "skills and experience" typed, both answered
C7_Witness ==
    /\ Settled
    /\ \E i, j \in DOMAIN calls :
          /\ calls[i].via = "quick"
          /\ calls[i].input = "skills"
          /\ calls[j].via = "send"
          /\ calls[j].message = <<"s","k","i","l","l","s"," ","a","n","d"," ",
                                  "e","x","p","e","r","i","e","n","c","e">>

\* the phrase and the rule the specification gives for each tag
TagPhrase(tag) ==
    CASE tag = "contact" ->
           <<"c","o","n","t","a","c","t"," ","i","n","f","o","r","m","a","t","i","o","n">>
      [] tag = "skills" ->
           <<"s","k","i","l","l","s"," ","a","n","d"," ","e","x","p","e","r","i","e","n","c","e">>
      [] tag = "projects" -> <<"p","r","o","j","e","c","t","s">>
      [] tag = "certifications" ->
           <<"c","e","r","t","i","f","i","c","a","t","i","o","n","s">>
      [] tag = "about" -> <<"a","b","o","u","t"," ","S","i","b","a","b","a","l","w","e">>
      [] OTHER -> <<"h","e","l","p">>

TagRule(tag) ==
    CASE tag = "contact" -> 1
      [] tag = "skills" -> 3
      [] tag = "projects" -> 4
      [] tag = "certifications" -> 5
      [] tag = "about" -> 6
      [] OTHER -> 9

\* C8: a click on tag contact, skills, projects, certifications or about
\* appends the tag's canned phrase as the user message, any other tag the
\* phrase "help", and the reply that follows is that of rule 1, 3, 4, 5, 6
\* and 9, in that order.
C8_QuickReplyTable ==
    \A i \in DOMAIN calls :
        calls[i].via = "quick" =>
            /\ UserMessages[calls[i].id].text = TagPhrase(calls[i].input)
            /\ calls[i].message = TagPhrase(calls[i].input)
            /\ IsRuleResponse(calls[i].response, TagRule(calls[i].input))

\* the tags "about" and "more" have been clicked and answered
C8_Witness ==
    \E i, j \in DOMAIN calls :
        /\ calls[i].via = "quick" /\ calls[i].input = "about"
        /\ calls[j].via = "quick" /\ calls[j].input = "more"

\* C9 as claimed: the time from the append of a user message to the append
\* of its reply is the same for handleQuickReply as for sendMessage.
C9_SameDelay ==
    \A i, j \in DOMAIN calls : calls[i].delay = calls[j].delay

\* C9 as amended: the time is fixed for each path, 10 ticks (1000 ms) for
\* sendMessage and 11 ticks (300 ms + 800 ms) for handleQuickReply.
C9_DelayPerPath ==
    \A i \in DOMAIN calls :
        calls[i].delay = IF calls[i].via = "send" THEN 10 ELSE 11

\* a quick reply and a typed message sent after it have both been answered
C9_Witness ==
    \E i, j \in DOMAIN calls :
        /\ calls[i].via = "quick" /\ calls[i].id = 1
        /\ calls[j].via = "send" /\ calls[j].id = 2

\* C10: two processMessage calls with the same text return equal responses,
\* whatever isOpen and hasInteracted are, whatever the container holds and
\* however many calls came before.
C10_Deterministic ==
    \A i, j \in DOMAIN calls :
        calls[i].message = calls[j].message => calls[i].response = calls[j].response

\* the same text has been answered twice, before the window was ever
\* opened and while it was open
C10_Witness ==
    \E i, j \in DOMAIN calls :
        /\ i < j
        /\ calls[i].message = calls[j].message
        /\ calls[i].widget = <<FALSE, FALSE>>
        /\ calls[j].widget = <<TRUE, TRUE>>

----------------------------------------------------------------------------
(* The widget's open/closed state and its badge *)

WelcomePending == \E i \in DOMAIN timers : timers[i].kind = "welcome"

\* C11: in every reachable state a displayed badge (display 'flex') implies
\* that the widget has never been open: neither a later opening nor the
\* welcome timer displays the badge once the widget has been opened.
C11_BadgeSuppressed ==
    badgeDisplay = "flex" => ~everOpen

\* the welcome timer has fired after the widget had been opened and closed
\* again; the badge stays hidden
C11_Witness ==
    /\ everOpen
    /\ ~isOpen
    /\ ~WelcomePending
    /\ badgeDisplay = "none"

\* C12: the widget is closed when the page has loaded; a toggle step moves
\* closed to open and open to closed; a close step ends closed from either
\* state, and from closed it changes nothing at all.
C12_StateMachine ==
    /\ ~isOpen
    /\ [][ /\ toggleChatbot => (isOpen' = ~isOpen)
           /\ closeChatbot => ~isOpen'
           /\ (closeChatbot /\ ~isOpen) => UNCHANGED vars ]_vars

\* the widget has been opened by a toggle and is closed again
C12_Witness ==
    /\ everOpen
    /\ hasInteracted
    /\ ~isOpen
    /\ ~windowActive

\* C13 as claimed: a keydown of Escape while the widget is open leaves it
\* closed.
C13_EscapeCloses ==
    [][ (keydown("Escape") /\ isOpen) => ~isOpen' ]_vars

\* C13 as amended: no keydown, Escape included, changes the widget's
\* open/closed state or the 'active' class of its window.
C13_EscapeIgnored ==
    [][ \A key \in Keys :
            keydown(key) => (isOpen' = isOpen /\ windowActive' = windowActive) ]_vars

\* Escape was the last key pressed, it was pressed while the widget was
\* open and closed the lightbox, and the widget is open
C13_Witness ==
    /\ lastKeydown = [key |-> "Escape", isOpen |-> TRUE]
    /\ isOpen
    /\ windowActive
    /\ bodyOverflow = "auto"

\* C14 as claimed: after a handleQuickReply step the widget is open, also
\* when it was closed before the click.
C14_QuickReplyOpens ==
    [][ (\E action \in QuickActions : handleQuickReply(action)) => isOpen' ]_vars

\* C14 as amended: a handleQuickReply step leaves the widget as it was, open
\* or closed; a click dispatched while the widget is closed is answered in
\* the closed window.
C14_QuickReplyKeepsState ==
    [][ (\E action \in QuickActions : handleQuickReply(action))
            => (isOpen' = isOpen /\ windowActive' = windowActive) ]_vars

\* a quick reply has been clicked and answered, and the widget has never
\* been open
C14_Witness ==
    /\ ~everOpen
    /\ ~isOpen
    /\ \E i \in DOMAIN calls :
           calls[i].via = "quick" /\ calls[i].widget = <<FALSE, FALSE>>

\* C15: the widget goes from open to closed only in a toggleChatbot or a
\* closeChatbot step; sendMessage, handleQuickReply, the reply callbacks and
\* the welcome callback leave isOpen and the window's class as they are.
C15_NeverClosesItself ==
    [][ /\ (isOpen /\ ~isOpen') => (toggleChatbot \/ closeChatbot)
        /\ (windowActive /\ ~windowActive') => (toggleChatbot \/ closeChatbot)
        /\ ( \/ \E raw \in RawInputs : sendMessage(raw)
             \/ \E action \in QuickActions : handleQuickReply(action)
             \/ TimerStep )
           => (isOpen' = isOpen /\ windowActive' = windowActive) ]_vars

\* the widget is open and has been open while a typed message and a quick
\* reply were answered and the welcome timer fired
C15_Witness ==
    /\ isOpen
    /\ ~WelcomePending
    /\ \E i, j \in DOMAIN calls :
           /\ calls[i].via = "send" /\ calls[i].widget = <<TRUE, TRUE>>
           /\ calls[j].via = "quick" /\ calls[j].widget = <<TRUE, TRUE>>

----------------------------------------------------------------------------
(* The transcript *)

IsPrefix(s, t) == Len(s) <= Len(t) /\ SubSeq(t, 1, Len(s)) = s

\* the user and bot messages of a container, typing indicators left out
MessagesOf(container) == SelectSeq(container, LAMBDA el : ~IsTyping(el))

ClassNames(container) == [i \in DOMAIN container |-> container[i].className]

\* C16 as claimed: in every step the elements the container held before are
\* a prefix of the elements it holds after: nothing that was appended to
\* the container is removed, edited or reordered.
C16_AppendOnly ==
    [][ IsPrefix(chatbotMessages, chatbotMessages') ]_vars

\* C16 as amended: the user and bot messages are append-only, each step
\* keeps the earlier messages unchanged and in order as a prefix of the
\* later ones; the typing indicator is not: hideTypingIndicator removes it
\* from the container when the reply arrives.
C16_MessagesAppendOnly ==
    [][ IsPrefix(MessagesOf(chatbotMessages), MessagesOf(chatbotMessages')) ]_vars

\* two messages were typed one after the other; the first reply has
\* removed the first indicator from between them and has been appended
\* after the second indicator
C16_Witness ==
    ClassNames(chatbotMessages) = <<"user", "user", "typing-indicator", "bot">>

\* C17: in every reachable state the knowledge base is the one the
\* constructor built, field by field (contact, skills, projects,
\* certifications, experience, education): no handler, no processMessage
\* call and no timer callback changes it.
C17_KnowledgeBaseFrozen ==
    /\ knowledgeBase = KnowledgeBaseInit
    /\ \A i \in DOMAIN calls : calls[i].response = processMessage(calls[i].message)

\* the skills were asked for by text and by button and both were answered,
\* the widget was opened and closed, the welcome timer fired
C17_Witness ==
    /\ everOpen
    /\ ~isOpen
    /\ ~WelcomePending
    /\ \E i, j \in DOMAIN calls :
           /\ calls[i].via = "send"
           /\ calls[j].via = "quick"
           /\ calls[i].response = calls[j].response
           /\ ~IsFallback(calls[i].response)

\* t is raw without the white space at its two ends
IsTrimmed(t, raw) ==
    /\ t # <<>>
    /\ t[1] \notin WhiteSpace
    /\ t[Len(t)] \notin WhiteSpace
    /\ \E a, b \in 0..Len(raw) :
           /\ a + Len(t) + b = Len(raw)
           /\ SubSeq(raw, a + 1, a + Len(t)) = t
           /\ \A k \in 1..a : raw[k] \in WhiteSpace
           /\ \A k \in (Len(raw) - b + 1)..Len(raw) : raw[k] \in WhiteSpace

\* the user message a step has appended to the container
AppendedUserText == UserMessages'[Len(UserMessages')].text

\* C18 as claimed: the user message a sendMessage step appends has the text
\* of the text field as it was submitted, character for character.
C18_Verbatim ==
    [][ \A raw \in RawInputs :
            (sendMessage(raw) /\ Len(UserMessages') > Len(UserMessages))
                => AppendedUserText = raw ]_vars

\* C18 as amended: the user message a sendMessage step appends has the
\* submitted text without its leading and trailing white space; the
\* characters in between are kept as typed.
C18_Trimmed ==
    [][ \A raw \in RawInputs :
            (sendMessage(raw) /\ Len(UserMessages') > Len(UserMessages))
                => IsTrimmed(AppendedUserText, raw) ]_vars

\* " Hi " was submitted: the transcript holds "Hi" for it
C18_Witness ==
    \E i \in DOMAIN timers :
        /\ timers[i].kind = "sendReply"
        /\ timers[i].input = <<" ", "H", "i", " ">>
        /\ UserMessages[timers[i].id].text = <<"H", "i">>

----------------------------------------------------------------------------
(* The contact form and the theme *)

Failures == {"notOk", "rejected"}

SubmissionPending == pending # <<>>

\* C19: a submission that fails, by a rejected fetch or by a response that
\* is not ok, shows the error status and the error toast, leaves the fields
\* as they are and gives the button its original label, enabled; an ok
\* response shows the success status and resets the fields; from the step
\* that starts a submission to the step that ends it the button is
\* disabled.
C19_FormFeedback ==
    /\ SubmissionPending => submitButton.disabled
    /\ [][ /\ SubmissionPending' => submitButton'.disabled
           /\ submit => (SubmissionPending' /\ submitButton'.disabled)
           /\ \A outcome \in Failures :
                  fetchSettles(outcome) =>
                      /\ status' = "form-status error"
                      /\ lastToast'.type = "error"
                      /\ formFilled' = formFilled
                      /\ submitButton' = [innerHTML |-> OriginalText, disabled |-> FALSE]
           /\ fetchSettles("ok") =>
                  /\ status' = "form-status success"
                  /\ ~formFilled'
                  /\ submitButton' = [innerHTML |-> OriginalText, disabled |-> FALSE]
         ]_vars

\* a submission of a filled form has failed: the error is shown, the fields
\* are still filled, the button is enabled with its label
C19_Witness ==
    /\ status = "form-status error"
    /\ lastToast.type = "error"
    /\ formFilled
    /\ ~SubmissionPending
    /\ submitButton = [innerHTML |-> OriginalText, disabled |-> FALSE]

\* the stored value names the displayed theme
StoredIsDisplayed == (savedTheme = "dark" /\ darkTheme) \/ (savedTheme = "light" /\ ~darkTheme)

\* two toggles have been made in this page view: the theme is the one
\* displayed before them, and so is the stored value if there was one
PairRestores ==
    Len(toggleTrail) = 2 =>
        /\ darkTheme = toggleTrail[1].dark
        /\ toggleTrail[1].saved # Null => savedTheme = toggleTrail[1].saved

\* C20: once a theme has been chosen by a toggle, the value stored under
\* 'portfolio-theme' names the displayed theme; two toggles in a row bring
\* back the displayed theme and the stored value; a reload displays the
\* theme displayed before it and keeps the stored value, whatever the OS
\* colour scheme is at that time.
C20_ThemeRoundTrip ==
    /\ savedTheme # Null => StoredIsDisplayed
    /\ PairRestores
    /\ [][ /\ savedTheme' # Null => StoredIsDisplayed'
           /\ toggleTheme => (savedTheme' # Null /\ darkTheme' = ~darkTheme)
           /\ PairRestores'
           /\ (reload /\ savedTheme # Null) =>
                  (darkTheme' = darkTheme /\ savedTheme' = savedTheme)
         ]_vars

\* the page was loaded with 'light' stored while the OS preferred dark,
\* and two toggles later the light theme and the stored 'light' are back
C20_Witness ==
    /\ loadedTheme = "light"
    /\ prefersDark
    /\ Len(toggleTrail) = 2
    /\ ~darkTheme
    /\ savedTheme = "light"

----------------------------------------------------------------------------
(* Overlapping exchanges *)

\* C21: the replies are appended in the order of the user messages they
\* answer: of two recorded replies, the earlier one answers the earlier
\* user message.
C21_RepliesInOrder ==
    \A i, j \in DOMAIN calls : i < j => calls[i].id < calls[j].id

\* C22: the container never holds more typing indicators than there are
\* user messages waiting for their reply, and none once every reply has
\* been appended.
C22_IndicatorsCleanedUp ==
    /\ Len(TypingIndicators) <= Len(ReplyTimers)
    /\ Settled => TypingIndicators = <<>>

\* a typed message and a quick reply overlap: both indicators are shown
C22_Witness ==
    /\ Len(TypingIndicators) = 2
    /\ \E i, j \in DOMAIN timers :
           timers[i].kind = "sendReply" /\ timers[j].kind = "quickReply"

\* C23: in every reachable state isOpen is true exactly when the chat
\* window has the class 'active'.
C23_FlagMatchesClass ==
    isOpen <=> windowActive

\* the window has been opened before the welcome timer fired and is open
C23_Witness ==
    /\ isOpen
    /\ windowActive
    /\ everOpen
    /\ WelcomePending

----------------------------------------------------------------------------
(* The tags of the offered buttons *)

\* the five cases of the switch of handleQuickReply
HandledTags == {"contact", "skills", "projects", "certifications", "about"}

HelpPhrase == <<"h", "e", "l", "p">>

\* C24: every button of a processMessage response carries one of the five
\* tags handleQuickReply has a case for, so a click on it sends that case's
\* phrase, never the generic 'help'.
C24_TagsClosed ==
    pmResponse # NoCall =>
        \A k \in DOMAIN pmResponse.quickReplies :
            /\ pmResponse.quickReplies[k].action \in HandledTags
            /\ cannedPhrase(pmResponse.quickReplies[k].action) # HelpPhrase

\* an answer with three buttons has been returned for a text of more than
\* ten characters
C24_Witness ==
    /\ pmResponse # NoCall
    /\ Len(pmResponse.quickReplies) = 3
    /\ FirstRule(pmMessage) \in {6, 8, 9}
    /\ pmMessage # <<>>
    /\ Len(pmMessage) > 10

----------------------------------------------------------------------------
(* The navigation menu *)

\* C25: a step that closes the open menu leaves the window at the scroll
\* position it had when the menu was opened, and a backdrop click or
\* nav-link click that finds the menu closed leaves the scroll position as
\* it is.
C25_ScrollRestored ==
    [][ /\ (navMobileOpen /\ ~navMobileOpen') => scrollY' = scrollAtOpen
        /\ ((backdropClick \/ navLinkClick) /\ ~navMobileOpen) => scrollY' = scrollY
      ]_vars

\* C26: in every reachable state the nav list has 'mobile-open' exactly
\* when the toggle has 'active', when the body has 'menu-open' and when the
\* body is position-fixed.
C26_MarkersAgree ==
    /\ navMobileOpen <=> mobileToggleActive
    /\ navMobileOpen <=> bodyMenuOpen
    /\ navMobileOpen <=> (bodyStyle.position = "fixed")
    /\ navMobileOpen <=> (bodyStyle.top # <<>>)

\* the menu was opened at 120 px, Escape has been pressed, the window has
\* been resized below 768 px and the debounced listener has run: the menu
\* is closed and the body released
C26_Witness ==
    /\ ~navMobileOpen
    /\ bodyStyle = StyleNone
    /\ scrollAtOpen = 240
    /\ lastKeydown.key = "Escape"
    /\ innerWidth = 480
    /\ ~resizeTimeout

-----------------------------------------------------------------------------
(* The throttled scroll handler *)

\* a step in which handleScroll is called
HeaderCall == lastCall'.n # lastCall.n

\* a step in which the wrapped function runs
HeaderRan == ranFlag' # ranFlag

\* C27: a call of the throttled function made while no window is open runs the
\* wrapped function at once and opens a window of limit ms; a call made inside
\* an open window is dropped and changes nothing; the wrapped function runs in
\* no other step (nothing is replayed when the window closes) and never less
\* than limit ms after its previous run; every open window closes again.
C27_Throttle ==
    /\ [][ /\ (HeaderCall /\ ~inThrottle) =>
                /\ HeaderRan
                /\ headerScrolled' = (scrollY > 50)
                /\ inThrottle'
                /\ throttleTimer' = << HeaderLimit >>
           /\ (HeaderCall /\ inThrottle) =>
                /\ ~HeaderRan
                /\ UNCHANGED <<inThrottle, throttleTimer, headerScrolled>>
           /\ HeaderRan =>
                /\ HeaderCall
                /\ ~inThrottle
                /\ sinceRun = HeaderLimit ]_vars
    /\ (inThrottle ~> ~inThrottle)

\* a window closed and a later call ran the function again; a call inside the
\* new window has been dropped, leaving the header class stale
C27_Witness ==
    /\ ranFlag
    /\ inThrottle
    /\ ~lastCall.ran
    /\ headerScrolled # (scrollY > 50)

-----------------------------------------------------------------------------
(* The typed effect *)

\* C28, for setupTypedEffect of src/script.js and, in the second half, for
\* typedEffect of src/unnamed/part_002, each on its own state: charIndex
\* always lies between 0 and the length of the current phrase and the element shows the first charIndex characters of that phrase; the
\* phrase changes only to the next one in declaration order, the first after
\* the last, and only in the step that deletes the last character; deletion
\* starts only from the phrase typed in full, and the text shrinks only while
\* deleting and grows only while typing; every phrase is shown in full
\* infinitely often.
C28_TypedCycle ==
    /\ [](/\ charIndex \in 0..Len(currentPhrase)
          /\ typedText = SubSeq(currentPhrase, 1, charIndex))
    /\ [][ /\ (phraseIndex' # phraseIndex) =>
                /\ phraseIndex' = IF phraseIndex = Len(phrases) - 1 THEN 0
                                  ELSE phraseIndex + 1
                /\ isDeleting
                /\ Len(typedText) = 1
                /\ typedText' = <<>>
           /\ (~isDeleting /\ isDeleting') => typedText' = currentPhrase
           /\ (Len(typedText') < Len(typedText)) =>
                /\ isDeleting
                /\ Len(typedText') = Len(typedText) - 1
           /\ (Len(typedText') > Len(typedText)) =>
                /\ ~isDeleting
                /\ Len(typedText') = Len(typedText) + 1 ]_vars
    /\ \A p \in 0..(Len(phrases) - 1) :
           []<>(phraseIndex = p /\ typedText = phrases[p + 1])
    /\ [](/\ pCharIndex \in 0..Len(current)
          /\ elText = SubSeq(current, 1, pCharIndex))
    /\ [][ /\ (pIndex' # pIndex) =>
                /\ pIndex' = IF pIndex = Len(tickPhrases) - 1 THEN 0
                             ELSE pIndex + 1
                /\ deleting
                /\ Len(elText) = 1
                /\ elText' = <<>>
           /\ (~deleting /\ deleting') => elText' = current
           /\ (Len(elText') < Len(elText)) =>
                /\ deleting
                /\ Len(elText') = Len(elText) - 1
           /\ (Len(elText') > Len(elText)) =>
                /\ ~deleting
                /\ Len(elText') = Len(elText) + 1 ]_vars
    /\ \A p \in 0..(Len(tickPhrases) - 1) :
           []<>(pIndex = p /\ elText = tickPhrases[p + 1])

\* setupTypedEffect has shown all six phrases and typed the first in full
\* again; typedEffect has typed its last phrase in full
C28_Witness ==
    /\ shown = 0..(Len(phrases) - 1)
    /\ phraseIndex = 0
    /\ typedText = phrases[1]
    /\ isDeleting
    /\ pIndex = Len(tickPhrases) - 1
    /\ elText = tickPhrases[pIndex + 1]
    /\ deleting

====
